---------------------------- MODULE Spec2Model ----------------------------
(***************************************************************************)
(* A model of koishi-core's App (packages/koishi-core/src/app.ts): the     *)
(* context registry (_createContext and the scope helpers) and the         *)
(* middleware pipeline (_applyMiddlewares and its continuation next), and  *)
(* of create of the MongoDB store (packages/plugin-mongo/src/index.ts).    *)
(***************************************************************************)
EXTENDS Integers, Sequences, FiniteSets, TLC

(***************************************************************************)
(* Bounds of the model.                                                    *)
(***************************************************************************)
\* longest ID list handed to a scope helper
MaxIds == 2
\* contexts created by helper calls on top of the constructor's four
MaxContexts == 1

\* middleware registered by plugins, on top of the constructor's _preprocess
MaxMiddlewares == 2
\* events handed to _applyMiddlewares
MaxDispatches == 2

\* handler invocations, over all dispatches together
MaxActivations == 5

\* calls of Database.create on the one table of the model
MaxCreates == 3
\* largest primary id a caller of create supplies in the data
MaxGiven == 2

\* the IDs the helpers are called with: 10 < 2 as strings, 2 < 10 as numbers
IDs == {2, 10}

VARIABLES
  _contexts,          \* App._contexts: identifier -> Context
  allocated,          \* number of Context objects constructed so far (object identity)
  lastCall,           \* the last scope-helper call: its helper, arguments and result
  database,           \* whether options.database configures a store (app.ts:107)
  _middlewares,       \* App._middlewares: the registered [Context, Middleware] pairs
  _middlewareCounter, \* App._middlewareCounter
  _middlewareSet,     \* App._middlewareSet: the live set of dispatch counters
  dispatches,         \* one record per call of _applyMiddlewares, in call order
  options,            \* App.options: the command prefixes and the nicknames
  lastEmit,           \* the last call of emitEvent: its event and what it delivered
  collection,         \* the documents of db.collection(name), a table of type incremental
  creates             \* one record per call of Database.create, in call order

scopeVars == <<_contexts, allocated, lastCall>>
pipeVars == <<database, _middlewares, _middlewareCounter, _middlewareSet, dispatches>>
mongoVars == <<collection, creates>>
auxVars == <<options, lastEmit, mongoVars>>
vars == <<_contexts, allocated, lastCall, database, _middlewares, _middlewareCounter,
          _middlewareSet, dispatches, options, lastEmit, collection, creates>>

(***************************************************************************)
(* ContextScope: three axes (user, group, discuss), each a pair            *)
(* <<include, exclude>> of ID lists of which one is null.                  *)
(***************************************************************************)
Null == <<-1>>

contextTypes == <<"user", "group", "discuss">>

\* app.ts:75
appScope == << <<Null, <<>>>>, <<Null, <<>>>>, <<Null, <<>>>> >>

\* the decimal digits of n, as String(n) gives them
RECURSIVE Digits(_)
Digits(n) == IF n < 10 THEN <<n>> ELSE Digits(n \div 10) \o <<n % 10>>

\* a < b as strings (code-unit order; a proper prefix is smaller)
RECURSIVE StrLess(_, _)
StrLess(a, b) ==
  IF b = <<>> THEN FALSE
  ELSE IF a = <<>> THEN TRUE
  ELSE IF Head(a) # Head(b) THEN Head(a) < Head(b)
  ELSE StrLess(Tail(a), Tail(b))

\* Array.prototype.sort() without a comparator compares the elements as strings
DefaultLess(x, y) == StrLess(Digits(x), Digits(y))

RECURSIVE Insert(_, _)
Insert(x, s) ==
  IF s = <<>> THEN <<x>>
  ELSE IF DefaultLess(x, Head(s)) THEN <<x>> \o s
  ELSE <<Head(s)>> \o Insert(x, Tail(s))

RECURSIVE SortIds(_)
SortIds(s) == IF s = <<>> THEN <<>> ELSE Insert(Head(s), SortIds(Tail(s)))

\* a mutant of Normalize: the lists are left in the caller's order
NormalizeUnsorted(scope) == scope

\* app.ts:159-161: each axis's non-null list is sorted
Normalize(scope) ==
  [i \in 1..3 |->
    IF scope[i][1] # Null THEN <<SortIds(scope[i][1]), scope[i][2]>>
    ELSE <<scope[i][1], SortIds(scope[i][2])>>]

\* ContextScope.stringify: per axis the type, the sign and the joined ID list
Stringify(scope) ==
  [i \in 1..3 |->
    [type |-> contextTypes[i],
     sign |-> IF scope[i][1] # Null THEN "+" ELSE "-",
     list |-> IF scope[i][1] # Null THEN scope[i][1] ELSE scope[i][2]]]

\* ContextScope.parse: the scope an identifier denotes
Parse(identifier) ==
  [i \in 1..3 |->
    IF identifier[i].sign = "+" THEN <<identifier[i].list, Null>>
    ELSE <<Null, identifier[i].list>>]

appIdentifier == Stringify(appScope)

\* new Context(identifier, scope): the object, with its identity
NewContext(identifier, scope, oid) ==
  [identifier |-> identifier, scope |-> scope, oid |-> oid]

\* app.ts:157-170, on a registry and an allocation count: the registry after
\* the call, the allocation count and the context returned
CreateContext(contexts, alloc, scope) ==
  LET sorted == Normalize(scope)
      identifier == Stringify(sorted)
  IN IF identifier \notin DOMAIN contexts
     THEN LET ctx == NewContext(identifier, sorted, alloc)
          IN [contexts |-> [k \in DOMAIN contexts \cup {identifier} |->
                              IF k = identifier THEN ctx ELSE contexts[k]],
              alloc |-> alloc + 1,
              ret |-> ctx]
     ELSE [contexts |-> contexts, alloc |-> alloc, ret |-> contexts[identifier]]

\* the scopes the helpers build (app.ts:120-125, 172-182)
usersScope == << <<Null, <<>>>>, <<<<>>, Null>>, <<<<>>, Null>> >>
groupsScope == << <<<<>>, Null>>, <<Null, <<>>>>, <<<<>>, Null>> >>
discussesScope == << <<<<>>, Null>>, <<<<>>, Null>>, <<Null, <<>>>> >>

Helpers == {"user", "group", "discuss", "users.except", "groups.except", "discusses.except"}

HelperScope(helper, ids) ==
  CASE helper = "user" -> << <<ids, Null>>, <<<<>>, Null>>, <<<<>>, Null>> >>
    [] helper = "group" -> << <<<<>>, Null>>, <<ids, Null>>, <<<<>>, Null>> >>
    [] helper = "discuss" -> << <<<<>>, Null>>, <<<<>>, Null>>, <<ids, Null>> >>
    [] helper = "users.except" -> << <<Null, ids>>, <<<<>>, Null>>, <<<<>>, Null>> >>
    [] helper = "groups.except" -> << <<<<>>, Null>>, <<Null, ids>>, <<<<>>, Null>> >>
    [] helper = "discusses.except" -> << <<<<>>, Null>>, <<<<>>, Null>>, <<Null, ids>> >>

\* the ID lists up to the bound, repetitions included
IdLists == UNION {[1..n -> IDs] : n \in 0..MaxIds}

\* app.ts:104-126: the registry the constructor leaves
ConstructorContexts ==
  LET c0 == [contexts |-> (appIdentifier :> NewContext(appIdentifier, appScope, 0)),
             alloc |-> 1]
      c1 == CreateContext(c0.contexts, c0.alloc, usersScope)
      c2 == CreateContext(c1.contexts, c1.alloc, groupsScope)
      c3 == CreateContext(c2.contexts, c2.alloc, discussesScope)
  IN c3

NoCall == [helper |-> "none", ids |-> <<>>, ret |-> 0, created |-> FALSE]

(***************************************************************************)
(* The middleware pipeline.                                                *)
(*                                                                         *)
(* A dispatch is one call of _applyMiddlewares.  Its record holds the      *)
(* closure's locals (counter, middlewares, index), the event, and the      *)
(* handler activations the dispatch has started, in the order they were    *)
(* invoked.  An activation is one call of a handler: the operations it     *)
(* still has to perform (prog), whether it is running or awaiting the      *)
(* promise of a next call (st), and who awaits its own promise (waiter:    *)
(* 0 is _applyMiddlewares, k >= 1 the k-th activation, -1 nobody), and     *)
(* whose call of next invoked it (by).                                     *)
(* History kept for the properties: calls and late count an activation's   *)
(* calls of next (late: those made after the dispatch completed); loose     *)
(* tells that it called next without awaiting the result, or returned      *)
(* while a callback of it still held next;                                 *)
(* registered is the length of _middlewares when the dispatch began;       *)
(* removed and flushed count what app.ts:373 and 376 did; doneActs and     *)
(* doneIndex are the activations and the index at completion; emitted is   *)
(* what the dispatch emitted on the app's receiver.                        *)
(* A step of the model is what runs between two suspension points.         *)
(***************************************************************************)

\* the IDs events carry
EventIds == {2}

\* the events: the kind of conversation and its ID ($ctxType, $ctxId)
Metas == [ctxType : {"group"}, ctxId : EventIds]

InList(x, s) == \E i \in 1..Len(s) : s[i] = x

\* the event's ID on an axis: it carries one on the axis of its own kind only
Unset == 0
AxisId(meta, i) == IF contextTypes[i] = meta.ctxType THEN meta.ctxId ELSE Unset

\* Context.match: every axis passes; an inclusion list must hold the ID (an
\* empty one passes an event that carries no ID on the axis), an exclusion
\* list must not hold it
Match(scope, meta) ==
  \A i \in 1..3 :
    LET id == AxisId(meta, i)
    IN IF scope[i][1] # Null
       THEN IF id = Unset THEN scope[i][1] = <<>> ELSE InList(id, scope[i][1])
       ELSE ~InList(id, scope[i][2])

\* what a handler does, as the operations it performs in order:
\*   "next"    return/await next()          "nextfb"  return/await next(fallback)
\*   "fire"    next() without awaiting it   "firefb"  next(fallback), not awaited
\*   "throw"   a synchronous throw          "ret"     the handler's promise resolves,
\*   "reject"  an asynchronous failure                what follows runs detached
\*   "observe" await database.observeUser   "hang"  an await that never settles
\* and then it returns
UserPrograms ==
  { <<>>, <<"next">>, <<"nextfb">>, <<"throw">>, <<"reject">>,
    <<"next", "next">>, <<"ret", "firefb", "fire">> }

\* app.ts:230-337 as the pipeline sees it: the user record is fetched, and then
\* _preprocess returns (a gated event, a command that ends the chain), or it
\* hands on to next, with or without a fallback; or the store never answers
PreprocessPrograms ==
  { <<"observe">>, <<"observe", "next">>, <<"observe", "nextfb">>, <<"hang">> }

\* a fallback wrapped by app.ts:362
FallbackPrograms == { <<>>, <<"next">> }

Programs(entry) ==
  IF entry.kind = "fallback" THEN FallbackPrograms
  ELSE IF entry.fn = 0 THEN PreprocessPrograms
  ELSE UserPrograms

RECURSIVE SelectMatching(_, _, _)
SelectMatching(mws, contexts, meta) ==
  IF mws = <<>> THEN <<>>
  ELSE LET rest == SelectMatching(Tail(mws), contexts, meta)
           e == Head(mws)
       IN IF Match(contexts[e.context].scope, meta)
          THEN <<[kind |-> "middleware", fn |-> e.fn]>> \o rest
          ELSE rest

\* a mutant of Snapshot: the entry registered last is left out
SnapshotButLast(mws, contexts, meta) ==
  SelectMatching(SubSeq(mws, 1, Len(mws) - 1), contexts, meta)

\* app.ts:352-354: the handlers of the entries whose context matches, in
\* registration order, in an array of the dispatch's own
Snapshot(mws, contexts, meta) == SelectMatching(mws, contexts, meta)

\* a mutant of NextCounter: the counter is handed out again
SameCounter(counter) == counter

\* app.ts:350: _middlewareCounter++
NextCounter(counter) == counter + 1

\* a mutant of IsLive: next does not look at the live set
IsLiveAlways(set, counter) == TRUE

\* app.ts:359
IsLive(set, counter) == counter \in set

\* a mutant of Advance: the index stays where it is
AdvanceNot(index) == index

\* app.ts:364: index++
Advance(index) == index + 1

\* app.ts:365-368: what the catch block emits
CatchEmits == <<"error/middleware", "error">>

\* app.ts:360
IsolatedEmits == <<"error:ISOLATED_NEXT">>

\* who awaits a promise goes on once it settles; a handler that has nothing
\* left to do returns, and its own promise resolves in turn
RECURSIVE Resolve(_, _)
Resolve(D, k) ==
  LET w == D.acts[k].waiter
      D1 == [D EXCEPT !.acts[k].waiter = -1]
  IN IF w = 0 THEN [D1 EXCEPT !.root = "ready"]
     ELSE IF w > 0
     THEN IF D1.acts[w].prog = <<>>
          THEN Resolve([D1 EXCEPT !.acts[w].st = "done"], w)
          ELSE [D1 EXCEPT !.acts[w].st = "ready"]
     ELSE D1

\* a rejected promise rejects the promise of the next that returned it and of
\* every handler awaiting that one, up to await next() in _applyMiddlewares
RECURSIVE RejectUp(_, _)
RejectUp(D, k) ==
  LET w == D.acts[k].waiter
      D1 == [D EXCEPT !.acts[k].waiter = -1, !.acts[k].prog = <<>>]
  IN IF w = 0 THEN [D1 EXCEPT !.root = "faulted"]
     ELSE IF w > 0 THEN RejectUp([D1 EXCEPT !.acts[w].st = "aborted"], w)
     ELSE D1

\* the caller of next goes on: it awaits the handler's promise, or the call
\* returned at once and it performs its next operation (returning, when none
\* is left)
CallerGoesOn(D, caller, waits) ==
  IF caller = 0
  THEN [D EXCEPT !.root = IF waits THEN "wait" ELSE "ready"]
  ELSE LET D1 == [D EXCEPT !.acts[caller] =
                     [@ EXCEPT !.prog = Tail(@), !.calls = @ + 1,
                               !.late = @ + (IF D.root = "done" THEN 1 ELSE 0),
                               !.st = IF waits THEN "wait" ELSE "ready"]]
       IN IF ~waits /\ D1.acts[caller].prog = <<>>
          THEN Resolve([D1 EXCEPT !.acts[caller].st = "done"], caller)
          ELSE D1

\* a mutant of WithFallback: the wrapper is put where the chain stands
WithFallbackFirst(chain, fb, caller) ==
  IF fb THEN <<[kind |-> "fallback", fn |-> caller]>> \o chain ELSE chain

\* app.ts:362: the chain with the fallback's wrapper at its end
WithFallback(chain, fb, caller) ==
  IF fb THEN Append(chain, [kind |-> "fallback", fn |-> caller]) ELSE chain

\* a mutant of Returned: next returns nothing to await
ReturnedNothing(awaited) == FALSE

\* app.ts:364: next returns the promise of the handler it invoked, so that a
\* caller awaiting next awaits the handler
Returned(awaited) == awaited

\* app.ts:358-369: one call of next by `caller`, the handler invoked (if any)
\* behaving as prog
DoNext(D, live, caller, fb, awaited, prog) ==
  IF ~live
  THEN CallerGoesOn([D EXCEPT !.emitted = @ \o IsolatedEmits], caller, FALSE)
  ELSE LET chain == WithFallback(D.middlewares, fb, caller)
           i == D.index
           D0 == IF caller > 0 /\ ~awaited THEN [D EXCEPT !.acts[caller].loose = TRUE]
                 ELSE D
           D1 == [D0 EXCEPT !.middlewares = chain, !.index = Advance(i)]
           act == [pos |-> i, entry |-> chain[i + 1], prog |-> prog, st |-> "ready",
                   waiter |-> IF Returned(awaited) THEN caller ELSE -1,
                   calls |-> 0, late |-> 0,
                   by |-> caller, loose |-> FALSE]
       IN IF i + 1 > Len(chain) THEN CallerGoesOn(D1, caller, FALSE)
          ELSE IF prog = <<"throw">>
          THEN CallerGoesOn(
                 [D1 EXCEPT !.acts = Append(@, [act EXCEPT !.prog = <<>>, !.st = "thrown",
                                                           !.waiter = -1]),
                            !.emitted = @ \o CatchEmits],
                 caller, FALSE)
          ELSE IF prog = <<>>
          THEN CallerGoesOn(
                 [D1 EXCEPT !.acts = Append(@, [act EXCEPT !.st = "done", !.waiter = -1])],
                 caller, FALSE)
          ELSE CallerGoesOn([D1 EXCEPT !.acts = Append(@, act)], caller, Returned(awaited))

RECURSIVE Activations(_)
Activations(ds) == IF ds = <<>> THEN 0 ELSE Len(Head(ds).acts) + Activations(Tail(ds))

\* whether a call of next would invoke a handler
Invokes(D, live, fb, caller) ==
  live /\ D.index + 1 <= Len(WithFallback(D.middlewares, fb, caller))

\* the behaviours of the handler a call of next would invoke
ProgChoices(D, live, fb, caller) ==
  IF Invokes(D, live, fb, caller)
  THEN Programs(WithFallback(D.middlewares, fb, caller)[D.index + 1])
  ELSE {<<>>}

\* app.ts:149-151 with neither nickname nor commandPrefix configured: no
\* nickname, and the empty string as the only prefix
DefaultOptions == [nicknames |-> <<>>, prefixes |-> << <<>> >>]

(***************************************************************************)
(* The first-stage handler _preprocess (app.ts:230-337).                   *)
(*                                                                         *)
(* A message is a sequence of characters.  "@" stands for the CQ code that *)
(* at-mentions this endpoint ([CQ:at,qq=selfId]), "," for a comma, " " for *)
(* white space; "E" is a capital letter, the other letters are lower case. *)
(* None of them is touched by simplify.                                    *)
(***************************************************************************)
Drop(s, n) == SubSeq(s, n + 1, Len(s))

StartsWith(s, p) == Len(p) <= Len(s) /\ SubSeq(s, 1, Len(p)) = p

\* the number of white-space characters s begins with
RECURSIVE LeadingSpaces(_)
LeadingSpaces(s) ==
  IF s # <<>> /\ Head(s) = " " THEN 1 + LeadingSpaces(Tail(s)) ELSE 0

TrimStart(s) == Drop(s, LeadingSpaces(s))

RECURSIVE TrimEnd(_)
TrimEnd(s) ==
  IF s # <<>> /\ s[Len(s)] = " " THEN TrimEnd(SubSeq(s, 1, Len(s) - 1)) ELSE s

Trim(s) == TrimEnd(TrimStart(s))

ToLowerCase(s) == [i \in 1..Len(s) |-> IF s[i] = "E" THEN "e" ELSE s[i]]

\* message.split(/\s/, 1)[0]: the characters before the first white space
RECURSIVE FirstToken(_)
FirstToken(s) ==
  IF s = <<>> \/ Head(s) = " " THEN <<>> ELSE <<Head(s)>> \o FirstToken(Tail(s))

\* the length nicknameSuffix (app.ts:78) matches at the start of s, -1 if it
\* does not match: a comma and any white space, or white space
SuffixLength(s) ==
  IF s # <<>> /\ Head(s) = "," THEN 1 + LeadingSpaces(Tail(s))
  ELSE IF LeadingSpaces(s) > 0 THEN LeadingSpaces(s)
  ELSE -1

\* app.ts:152: the length atMeRE matches at the start of s, -1 for no match
AtMeLength(s) ==
  IF s # <<>> /\ Head(s) = "@" /\ SuffixLength(Tail(s)) >= 0
  THEN 1 + SuffixLength(Tail(s))
  ELSE -1

\* app.ts:79-81: the length the expression of createLeadingRE matches at the
\* start of s, -1 for no match; without patterns it is /^/, which matches
\* the empty string, and otherwise the first alternative that matches counts
RECURSIVE LeadingLength(_, _, _)
LeadingLength(patterns, withSuffix, s) ==
  IF patterns = <<>> THEN -1
  ELSE LET p == Head(patterns)
           fits == /\ StartsWith(s, p)
                   /\ withSuffix => SuffixLength(Drop(s, Len(p))) >= 0
       IN IF fits
          THEN Len(p) + (IF withSuffix THEN SuffixLength(Drop(s, Len(p))) ELSE 0)
          ELSE LeadingLength(Tail(patterns), withSuffix, s)

LeadingRE(patterns, withSuffix, s) ==
  IF patterns = <<>> THEN 0 ELSE LeadingLength(patterns, withSuffix, s)

\* app.ts:149-151: the option sets the model runs with
OptionSets ==
  { DefaultOptions,
    [nicknames |-> << <<"k">> >>, prefixes |-> << <<"!">> >>],
    [nicknames |-> << <<"k">> >>, prefixes |-> << <<>> >>] }

\* the registered commands (_commandMap): e on the root context, g on
\* app.groups, which matches the events of groups only
CommandMap ==
  (<<"e">> :> [name |-> <<"e">>, context |-> appIdentifier,
               userFields |-> {"money"}]) @@
  (<<"g">> :> [name |-> <<"g">>, context |-> Stringify(groupsScope),
               userFields |-> {"timers", "flag"}])

\* the registered shortcuts (_shortcuts), in registration order
Shortcuts ==
  << [name |-> <<"p">>, fuzzy |-> FALSE, prefix |-> FALSE, oneArg |-> FALSE,
      command |-> <<"g">>, options |-> <<>>],
     [name |-> <<"s">>, fuzzy |-> TRUE, prefix |-> FALSE, oneArg |-> FALSE,
      command |-> <<"e">>, options |-> <<"default">>],
     [name |-> <<"s", " ", "x">>, fuzzy |-> FALSE, prefix |-> FALSE, oneArg |-> FALSE,
      command |-> <<"g">>, options |-> <<>>],
     [name |-> <<"h">>, fuzzy |-> TRUE, prefix |-> TRUE, oneArg |-> TRUE,
      command |-> <<"e">>, options |-> <<>>] >>

\* command.parse: the arguments and the options found in the text; "-" marks
\* the one option of the model, given on the command line
CommandParse(text) ==
  [args |-> text, options |-> IF InList("-", text) THEN <<"given">> ELSE <<>>]

\* Object.assign(result.options, shortcut.options): the shortcut's value of
\* the option replaces the parsed one
AssignOptions(parsed, defaults) == IF defaults # <<>> THEN defaults ELSE parsed

NoArgv == [found |-> FALSE, via |-> "none", command |-> <<>>, args |-> <<>>,
           options |-> <<>>]

\* app.ts:339-346
ParseCommandLine(contexts, message, meta) ==
  LET name == ToLowerCase(FirstToken(message))
  IN IF name \in DOMAIN CommandMap /\ Match(contexts[CommandMap[name].context].scope, meta)
     THEN LET result == CommandParse(TrimStart(Drop(message, Len(name))))
          IN [found |-> TRUE, via |-> "strict", command |-> name,
              args |-> result.args, options |-> result.options]
     ELSE NoArgv

\* app.ts:262-266: whether the loop takes the shortcut for the message
ShortcutPasses(shortcut, nickname, message) ==
  /\ ~(shortcut.prefix /\ ~nickname)
  /\ ~(~shortcut.fuzzy /\ message # shortcut.name)
  /\ StartsWith(message, shortcut.name)
  /\ LET rest == Drop(message, Len(shortcut.name))
     IN ~(shortcut.fuzzy /\ ~shortcut.prefix /\ rest # <<>> /\ Head(rest) # " ")

\* app.ts:260-274: the first shortcut that passes, with its command
RECURSIVE ParseShortcut(_, _, _)
ParseShortcut(shortcuts, nickname, message) ==
  IF shortcuts = <<>> THEN NoArgv
  ELSE LET shortcut == Head(shortcuts)
           rest == Drop(message, Len(shortcut.name))
           text == IF shortcut.oneArg THEN <<"'">> \o Trim(rest) \o <<"'">> ELSE rest
           result == CommandParse(text)
       IN IF ShortcutPasses(shortcut, nickname, message)
          THEN [found |-> TRUE, via |-> "shortcut", command |-> shortcut.command,
                args |-> result.args,
                options |-> AssignOptions(result.options, shortcut.options)]
          ELSE ParseShortcut(Tail(shortcuts), nickname, message)

\* a mutant of StrictAttempted: a private conversation does not count
StrictAttemptedPublic(prefix, nickname, messageType) == prefix.matched \/ nickname

\* app.ts:255: prefix !== null || nickname || meta.messageType === 'private'
StrictAttempted(prefix, nickname, messageType) ==
  prefix.matched \/ nickname \/ messageType = "private"

\* a mutant of ShortcutAttempted: the empty prefix counts as a prefix
ShortcutAttemptedUnmatched(prefix) == ~prefix.matched

\* app.ts:258: !prefix, which holds of null and of the empty string
ShortcutAttempted(prefix) == ~prefix.matched \/ prefix.text = <<>>

\* the messages the model sends
Messages ==
  { <<>>,
    <<"e", " ", "x">>, <<" ", "e", " ">>, <<"E">>,
    <<"!", "e", " ", "x">>, <<"!", "z">>, <<"!", "p">>,
    <<"@", " ", "e">>, <<"@", "e">>, <<"@", ",", "p">>, <<"@", " ", "z">>,
    <<"k", ",", " ", "e">>, <<"k", " ", "z">>, <<"k", " ", "h", " ", "x">>,
    <<"g">>, <<"z">>,
    <<"p">>, <<"p", " ", "x">>, <<"s", " ", "x">>, <<"s", "x">>, <<"s", " ", "-">>,
    <<"h", " ", "x">> }

\* user.ignoreEnd as stored, and Date.now() / 1000 when the event is handled
IgnoreEnds == {0, 4, 5, 6}
Now == 5

\* the message events: the conversation, the text, the flags of the group
\* ($group.flag, $group.assignee = selfId) and of the user (flag, ignoreEnd)
MessageEvents ==
  [messageType : {"group"}, message : Messages, noCommand : BOOLEAN,
   noResponse : BOOLEAN, isAssignee : BOOLEAN, ignore : BOOLEAN, ignoreEnd : IgnoreEnds]
  \cup
  [messageType : {"private", "discuss"}, message : Messages, noCommand : {FALSE},
   noResponse : {FALSE}, isAssignee : {TRUE}, ignore : BOOLEAN, ignoreEnd : IgnoreEnds]

\* an event as it is when no store is configured: $group and $user are not
\* read (app.ts:286), and the event carries no flags
Unflagged(event) ==
  /\ ~event.noCommand /\ ~event.noResponse /\ event.isAssignee
  /\ ~event.ignore /\ event.ignoreEnd = 0

\* $ctxType and $ctxId of a message event
MetaOf(event) ==
  [ctxType |-> IF event.messageType = "private" THEN "user" ELSE event.messageType,
   ctxId |-> 2]

\* app.ts:235-275: the message stripped of at-mention, nickname and prefix,
\* and the command line it resolves to
Strip(opts, contexts, event) ==
  LET m0 == Trim(event.message)
      at == IF event.messageType # "private" THEN AtMeLength(m0) ELSE -1
      m1 == IF at >= 0 THEN Drop(m0, at) ELSE m0
      nk == LeadingRE(opts.nicknames, TRUE, m1)
      nickname == at >= 0 \/ nk > 0
      m2 == IF nk > 0 THEN Drop(m1, nk) ELSE m1
      px == LeadingRE(opts.prefixes, FALSE, m2)
      prefix == [matched |-> px >= 0, text |-> IF px >= 0 THEN SubSeq(m2, 1, px) ELSE <<>>]
      message == IF px >= 0 THEN Drop(m2, px) ELSE m2
      strict == IF StrictAttempted(prefix, nickname, event.messageType)
                THEN ParseCommandLine(contexts, message, MetaOf(event))
                ELSE NoArgv
      parsedArgv == IF strict.found THEN strict
                    ELSE IF ShortcutAttempted(prefix)
                    THEN ParseShortcut(Shortcuts, nickname, message)
                    ELSE NoArgv
  IN [atMe |-> at >= 0, nickname |-> nickname, prefix |-> prefix, capture |-> px >= 0,
      message |-> message, parsedArgv |-> parsedArgv]

NoEmit == [meta |-> <<>>, failing |-> {}, registered |-> 0, delivered |-> <<>>,
           thrown |-> FALSE]

Init ==
  /\ _contexts = ConstructorContexts.contexts
  /\ allocated = ConstructorContexts.alloc
  /\ lastCall = NoCall
  /\ database \in BOOLEAN
  /\ _middlewares = <<[context |-> appIdentifier, fn |-> 0]>>
  /\ _middlewareCounter = 0
  /\ _middlewareSet = {}
  /\ dispatches = <<>>
  /\ options = DefaultOptions
  /\ lastEmit = NoEmit
  /\ collection = {}
  /\ creates = <<>>

\* the constructor's four contexts do not count against the bound
Room(contexts) == Cardinality(DOMAIN contexts) < 4 + MaxContexts

\* one call of _createContext, as a helper makes it
CallCreate(helper, ids, scope) ==
  LET r == CreateContext(_contexts, allocated, scope)
  IN /\ r.contexts = _contexts \/ Room(_contexts)
     /\ _contexts' = r.contexts
     /\ allocated' = r.alloc
     /\ lastCall' = [helper |-> helper, ids |-> ids, ret |-> r.ret.oid,
                     created |-> r.contexts # _contexts]
     /\ UNCHANGED <<pipeVars, auxVars>>

\* app.ts:172-182 and 123-125: user, group, discuss and the except helpers
CallHelper ==
  \E helper \in Helpers, ids \in IdLists :
    CallCreate(helper, ids, HelperScope(helper, ids))

\* app.ts:158: _createContext handed an identifier
CallWithIdentifier ==
  \E helper \in Helpers, ids \in IdLists :
    CallCreate(helper, ids, Parse(Stringify(HelperScope(helper, ids))))

\* the contexts plugins register middleware on: two that match a group event
\* and one that does not
MiddlewareContexts == {appIdentifier, Stringify(groupsScope), Stringify(usersScope)}

\* Context.middleware: the pair is appended to the app's list
Register ==
  \E c \in MiddlewareContexts :
    /\ Len(_middlewares) < 1 + MaxMiddlewares
    /\ _middlewares' = Append(_middlewares, [context |-> c, fn |-> Len(_middlewares)])
    /\ UNCHANGED <<auxVars, scopeVars, database, _middlewareCounter, _middlewareSet, dispatches>>

\* app.ts:348-370: a message event arrives; up to the first suspension point
\* _applyMiddlewares takes its counter, snapshots the chain and calls next
Receive ==
  \E meta \in Metas :
    /\ Len(dispatches) < MaxDispatches
    /\ Activations(dispatches) < MaxActivations
    /\ LET counter == _middlewareCounter
           set == _middlewareSet \cup {counter}
           D == [counter |-> counter, meta |-> meta,
                 middlewares |-> Snapshot(_middlewares, _contexts, meta),
                 index |-> 0, acts |-> <<>>, root |-> "ready", user |-> FALSE,
                 fetches |-> 0,
                 removed |-> 0, flushed |-> 0, emitted |-> <<>>,
                 registered |-> Len(_middlewares), doneActs |-> 0, doneIndex |-> 0]
       IN /\ _middlewareCounter' = NextCounter(counter)
          /\ _middlewareSet' = set
          /\ \E prog \in ProgChoices(D, IsLive(set, counter), FALSE, 0) :
               dispatches' = Append(dispatches,
                               DoNext(D, IsLive(set, counter), 0, FALSE, TRUE, prog))
    /\ UNCHANGED <<auxVars, scopeVars, database, _middlewares>>

Running(d, k) ==
  /\ d \in 1..Len(dispatches)
  /\ k \in 1..Len(dispatches[d].acts)
  /\ dispatches[d].acts[k].st = "ready"

NextOp(d, k) ==
  IF dispatches[d].acts[k].prog = <<>> THEN "return" ELSE Head(dispatches[d].acts[k].prog)

\* a handler calls the next it was given
CallNext ==
  \E d \in 1..Len(dispatches) : \E k \in 1..Len(dispatches[d].acts) :
    /\ Running(d, k)
    /\ NextOp(d, k) \in {"next", "nextfb", "fire", "firefb"}
    /\ LET D == dispatches[d]
           live == IsLive(_middlewareSet, D.counter)
           fb == NextOp(d, k) \in {"nextfb", "firefb"}
       IN \E prog \in ProgChoices(D, live, fb, k) :
            /\ Invokes(D, live, fb, k) => Activations(dispatches) < MaxActivations
            /\ dispatches' = [dispatches EXCEPT ![d] =
                             DoNext(D, live, k, fb, NextOp(d, k) \in {"next", "nextfb"}, prog)]
    /\ UNCHANGED <<auxVars, scopeVars, database, _middlewares, _middlewareCounter, _middlewareSet>>

\* app.ts:286-292: _preprocess attaches the user record when a store is configured
ObserveUser ==
  \E d \in 1..Len(dispatches) : \E k \in 1..Len(dispatches[d].acts) :
    /\ Running(d, k)
    /\ NextOp(d, k) = "observe"
    /\ dispatches' = [dispatches EXCEPT ![d] =
         LET D1 == [@ EXCEPT !.acts[k].prog = Tail(@), !.user = database,
                             !.fetches = IF database THEN @ + 1 ELSE @]
         IN IF D1.acts[k].prog = <<>>
            THEN Resolve([D1 EXCEPT !.acts[k].st = "done"], k)
            ELSE D1]
    /\ UNCHANGED <<auxVars, scopeVars, database, _middlewares, _middlewareCounter, _middlewareSet>>

\* a handler returns and leaves a callback behind that still holds next
EarlyReturn ==
  \E d \in 1..Len(dispatches) : \E k \in 1..Len(dispatches[d].acts) :
    /\ Running(d, k)
    /\ NextOp(d, k) = "ret"
    /\ dispatches' = [dispatches EXCEPT ![d] =
                        Resolve([@ EXCEPT !.acts[k].prog = Tail(@),
                                          !.acts[k].loose = TRUE], k)]
    /\ UNCHANGED <<auxVars, scopeVars, database, _middlewares, _middlewareCounter, _middlewareSet>>

\* a handler's promise rejects: app.ts:364 returns it without awaiting it, so
\* the promise of next rejects with it
Reject ==
  \E d \in 1..Len(dispatches) : \E k \in 1..Len(dispatches[d].acts) :
    /\ Running(d, k)
    /\ NextOp(d, k) = "reject"
    /\ dispatches' = [dispatches EXCEPT ![d] =
                        RejectUp([@ EXCEPT !.acts[k].st = "rejected"], k)]
    /\ UNCHANGED <<auxVars, scopeVars, database, _middlewares, _middlewareCounter, _middlewareSet>>

\* a mutant of Remove: the counter stays in the live set
RemoveNot(set, counter) == set

\* app.ts:373
Remove(set, counter) == set \ {counter}

\* app.ts:370-377: await next() has resolved; the counter leaves the live set
\* and the user record is flushed
Complete ==
  \E d \in 1..Len(dispatches) :
    /\ dispatches[d].root = "ready"
    /\ _middlewareSet' = Remove(_middlewareSet, dispatches[d].counter)
    /\ dispatches' = [dispatches EXCEPT
         ![d].root = "done",
         ![d].doneActs = Len(dispatches[d].acts),
         ![d].doneIndex = dispatches[d].index,
         ![d].removed = @ + (IF dispatches[d].counter \in _middlewareSet THEN 1 ELSE 0),
         ![d].flushed = @ + (IF dispatches[d].user THEN 1 ELSE 0)]
    /\ UNCHANGED <<auxVars, scopeVars, database, _middlewares, _middlewareCounter>>

(***************************************************************************)
(* One message event through _applyMiddlewares and _preprocess.  The       *)
(* dispatch record holds, in pre, the event, what app.ts:235-275 made of   *)
(* it, and what _preprocess decided: outcome ("gated", "execute",          *)
(* "suggest", "next", or "pending" before the decision), the gate that     *)
(* suppressed it, user.ignoreEnd as _preprocess leaves it, whether the     *)
(* next it hands on is the wrapper of app.ts:301 with noResponse set       *)
(* (disabled), and how often that wrapper was called (idle); fields is    *)
(* the field list handed to observeUser (app.ts:288), and fetches of the   *)
(* dispatch record counts the calls of observeUser.                        *)
(***************************************************************************)
\* a mutant of UserFields: the fields of the resolved command are left out
UniversalFields(parsedArgv) == {"name", "flag", "ignoreEnd"}

\* app.ts:256, 270 and 277-284: the fields _preprocess asks observeUser for,
\* as a set: those of the resolved command, then name, flag and ignoreEnd,
\* and usage and authority when a command was resolved
UserFields(parsedArgv) ==
  (IF parsedArgv.found
   THEN CommandMap[parsedArgv.command].userFields \cup {"usage", "authority"}
   ELSE {})
  \cup {"name", "flag", "ignoreEnd"}

\* the middleware registered when the message arrives: _preprocess and one
\* middleware of a plugin on the root context
FirstMiddlewares ==
  <<[context |-> appIdentifier, fn |-> 0], [context |-> appIdentifier, fn |-> 1]>>

InitFirst ==
  /\ _contexts = ConstructorContexts.contexts
  /\ allocated = ConstructorContexts.alloc
  /\ lastCall = NoCall
  /\ database \in BOOLEAN
  /\ _middlewares = FirstMiddlewares
  /\ _middlewareCounter = 0
  /\ _middlewareSet = {}
  /\ dispatches = <<>>
  /\ options \in OptionSets
  /\ lastEmit = NoEmit
  /\ collection = {}
  /\ creates = <<>>

\* app.ts:348-370 and 230-285: a message event arrives and _preprocess runs
\* up to await observeUser, or to its decision when no store is configured
ReceiveMessage ==
  \E event \in MessageEvents :
    /\ dispatches = <<>>
    /\ database \/ Unflagged(event)
    /\ LET counter == _middlewareCounter
           set == _middlewareSet \cup {counter}
           D == [counter |-> counter, meta |-> MetaOf(event),
                 middlewares |-> Snapshot(_middlewares, _contexts, MetaOf(event)),
                 index |-> 0, acts |-> <<>>, root |-> "ready", user |-> FALSE,
                 fetches |-> 0,
                 removed |-> 0, flushed |-> 0, emitted |-> <<>>,
                 registered |-> Len(_middlewares), doneActs |-> 0, doneIndex |-> 0,
                 pre |-> [event |-> event, strip |-> Strip(options, _contexts, event),
                          fields |-> UserFields(Strip(options, _contexts, event).parsedArgv),
                          outcome |-> "pending", gate |-> "none",
                          ignoreEnd |-> event.ignoreEnd, disabled |-> FALSE, idle |-> 0]]
       IN /\ _middlewareCounter' = NextCounter(counter)
          /\ _middlewareSet' = set
          /\ dispatches' =
               <<DoNext(D, IsLive(set, counter), 0, FALSE, TRUE,
                        IF database THEN <<"observe", "decide">> ELSE <<"decide">>)>>
    /\ UNCHANGED <<auxVars, scopeVars, database, _middlewares>>

\* app.ts:299: the group does not respond: its flag says so, or the group is
\* assigned to another endpoint
NoResponse(event) == event.noResponse \/ ~event.isAssignee

\* a mutant of StillIgnored: the very second of the expiry is not ignored
StillIgnoredBefore(ignoreEnd, time) == ignoreEnd > time

\* app.ts:310
StillIgnored(ignoreEnd, time) == ignoreEnd >= time

\* a mutant of Gate: the checks of the group are left out
GateOfUser(event, strip) ==
  IF event.ignore THEN "ignore"
  ELSE IF event.ignoreEnd # 0 /\ StillIgnored(event.ignoreEnd, Now) THEN "ignoreEnd"
  ELSE "none"

\* app.ts:296-312: the check that suppresses the event, "none" if none does
Gate(event, strip) ==
  IF event.messageType = "group" /\ event.noCommand /\ strip.parsedArgv.found
  THEN "noCommand"
  ELSE IF event.messageType = "group" /\ NoResponse(event) /\ ~strip.atMe
  THEN "noResponse"
  ELSE IF event.ignore THEN "ignore"
  ELSE IF event.ignoreEnd # 0 /\ StillIgnored(event.ignoreEnd, Now) THEN "ignoreEnd"
  ELSE "none"

\* app.ts:316-322: what _preprocess goes on to when the event is not
\* suppressed; capture is what prefixRE matched (app.ts:250)
Proceed(strip) ==
  IF strip.parsedArgv.found THEN "execute"
  ELSE IF ToLowerCase(FirstToken(strip.message)) = <<>> \/ ~strip.capture THEN "next"
  ELSE "suggest"

\* what command.execute and showSuggestions do with the next handed to them:
\* nothing, or a call of it, with or without a fallback
Continuations == { <<>>, <<"next">>, <<"nextfb">> }

\* a mutant of Handed: the wrapper of app.ts:301 is not installed
HandedOriginal(disabled, cont) == cont

\* app.ts:300-301: the next _preprocess uses and hands on: with noResponse
\* set the wrapper returns without calling the dispatch's next
Handed(disabled, cont) ==
  IF disabled THEN [i \in 1..Len(cont) |-> "idle"] ELSE cont

\* app.ts:286-336, after await observeUser: the decision of _preprocess on
\* the record of a dispatch, cont being what a command or the suggestion flow
\* does with next
DecideOn(D, k, store, cont) ==
  LET event == D.pre.event
      strip == D.pre.strip
      gate == IF store THEN Gate(event, strip) ELSE "none"
      outcome == IF gate # "none" THEN "gated" ELSE Proceed(strip)
      disabled == store /\ event.messageType = "group" /\ NoResponse(event)
      prog == IF outcome = "gated" THEN <<>>
              ELSE IF outcome = "next" THEN Handed(disabled, <<"next">>)
              ELSE Handed(disabled, cont)
      D1 == [D EXCEPT !.pre.outcome = outcome,
                      !.pre.gate = gate,
                      !.pre.disabled = disabled,
                      !.pre.ignoreEnd = IF store /\ gate = "none" THEN 0 ELSE @,
                      !.acts[k].prog = prog]
  IN IF prog = <<>> THEN Resolve([D1 EXCEPT !.acts[k].st = "done"], k) ELSE D1

\* app.ts:286-336: _preprocess gates the event, executes the command, enters
\* the suggestion flow or falls through
Decide ==
  \E d \in 1..Len(dispatches) : \E k \in 1..Len(dispatches[d].acts) :
    /\ Running(d, k)
    /\ NextOp(d, k) = "decide"
    /\ \E cont \in Continuations :
         dispatches' = [dispatches EXCEPT ![d] = DecideOn(@, k, database, cont)]
    /\ UNCHANGED <<auxVars, scopeVars, database, _middlewares, _middlewareCounter,
                   _middlewareSet>>

\* app.ts:301: the wrapper is called with noResponse set: it returns
\* noResponse, and the dispatch's next is not called
CallIdleNext ==
  \E d \in 1..Len(dispatches) : \E k \in 1..Len(dispatches[d].acts) :
    /\ Running(d, k)
    /\ NextOp(d, k) = "idle"
    /\ dispatches' = [dispatches EXCEPT ![d] =
         LET D1 == [@ EXCEPT !.acts[k].prog = Tail(@), !.pre.idle = @ + 1]
         IN IF D1.acts[k].prog = <<>>
            THEN Resolve([D1 EXCEPT !.acts[k].st = "done"], k)
            ELSE D1]
    /\ UNCHANGED <<auxVars, scopeVars, database, _middlewares, _middlewareCounter,
                   _middlewareSet>>

NextFirst ==
  \/ ReceiveMessage
  \/ ObserveUser
  \/ Decide
  \/ CallIdleNext
  \/ CallNext
  \/ EarlyReturn
  \/ Reject
  \/ Complete

SpecFirst == InitFirst /\ [][NextFirst]_vars

(***************************************************************************)
(* emitEvent.                                                              *)
(***************************************************************************)
\* the events emitEvent is handed: a conversation of any kind
EmitMetas == [ctxType : {"user", "group", "discuss"}, ctxId : IDs]

\* app.ts:222: for...in visits the keys of _contexts in insertion order
ContextOrder(contexts) ==
  [i \in 1..Cardinality(DOMAIN contexts) |->
     CHOOSE k \in DOMAIN contexts : contexts[k].oid = i - 1]

\* the contexts whose listener for the event throws: none, or one of them
FailingSets(contexts) == {{}} \cup {{k} : k \in DOMAIN contexts}

\* app.ts:222-227: the contexts whose receiver emitted the event, in order; a
\* listener that throws makes receiver.emit throw, which ends the loop
RECURSIVE Deliver(_, _, _, _)
Deliver(contexts, order, meta, failing) ==
  IF order = <<>> THEN [delivered |-> <<>>, thrown |-> FALSE]
  ELSE IF ~Match(contexts[Head(order)].scope, meta)
  THEN Deliver(contexts, Tail(order), meta, failing)
  ELSE IF Head(order) \in failing
  THEN [delivered |-> <<Head(order)>>, thrown |-> TRUE]
  ELSE LET rest == Deliver(contexts, Tail(order), meta, failing)
       IN [delivered |-> <<Head(order)>> \o rest.delivered, thrown |-> rest.thrown]

\* app.ts:220-228: one call of emitEvent
EmitEvent ==
  \E meta \in EmitMetas : \E failing \in FailingSets(_contexts) :
    LET r == Deliver(_contexts, ContextOrder(_contexts), meta, failing)
    IN /\ lastEmit' = [meta |-> meta, failing |-> failing, registered |-> allocated,
                       delivered |-> r.delivered, thrown |-> r.thrown]
       /\ UNCHANGED <<scopeVars, pipeVars, options, mongoVars>>

NextEmit == CallHelper \/ EmitEvent

SpecEmit == Init /\ [][NextEmit]_vars

NextScope == CallHelper \/ CallWithIdentifier

SpecScope == Init /\ [][NextScope]_vars

Next ==
  \/ Register
  \/ Receive
  \/ CallNext
  \/ ObserveUser
  \/ EarlyReturn
  \/ Reject
  \/ Complete

Spec == Init /\ [][Next]_vars

(***************************************************************************)
(* Database.create of the MongoDB store on a table of type incremental     *)
(* (index.ts:187-203).  A call is a record: given is data[primary] as the  *)
(* caller supplied it (0 when absent), pc the await the call stands at     *)
(* ("find", "insert") or "done" once it has returned, id the primary id of *)
(* the record it returns, inserted whether its insertOne stored the        *)
(* document.  Each await is a point where other calls run.                 *)
(***************************************************************************)
\* find().sort('_id', -1).limit(1): the largest _id of the collection, 0
\* standing for no document
Latest(coll) ==
  IF coll = {} THEN 0
  ELSE CHOOSE n \in {doc._id : doc \in coll} : \A doc \in coll : doc._id <= n

\* index.ts:194: latest ? latest._id + 1 : 1
IncrementalId(coll) == Latest(coll) + 1

\* index.ts:188-193: create is called; with a primary id in the data it goes
\* on to insertOne, without one it asks the collection for its latest document
Create ==
  \E given \in 0..MaxGiven :
    /\ Len(creates) < MaxCreates
    /\ creates' = Append(creates,
                     [given |-> given, pc |-> IF given # 0 THEN "insert" ELSE "find",
                      id |-> given, inserted |-> FALSE])
    /\ UNCHANGED <<scopeVars, pipeVars, options, lastEmit, collection>>

\* index.ts:193-196: the find has resolved; the id is the latest _id plus one
FindLatest ==
  \E c \in 1..Len(creates) :
    /\ creates[c].pc = "find"
    /\ creates' = [creates EXCEPT ![c].id = IncrementalId(collection),
                                  ![c].pc = "insert"]
    /\ UNCHANGED <<scopeVars, pipeVars, options, lastEmit, collection>>

\* index.ts:200-201: insertOne stores the document unless one with its _id
\* exists; the duplicate-key error is swallowed by catch(() => {}), and
\* create returns the data either way
InsertOne ==
  \E c \in 1..Len(creates) :
    /\ creates[c].pc = "insert"
    /\ LET duplicate == \E doc \in collection : doc._id = creates[c].id
       IN /\ collection' = IF duplicate THEN collection
                           ELSE collection \cup {[_id |-> creates[c].id, by |-> c]}
          /\ creates' = [creates EXCEPT ![c].pc = "done", ![c].inserted = ~duplicate]
    /\ UNCHANGED <<scopeVars, pipeVars, options, lastEmit>>

NextCreate == Create \/ FindLatest \/ InsertOne

SpecCreate == Init /\ [][NextCreate]_vars

(***************************************************************************)
(* Properties of the context registry (checked under SpecScope).           *)
(***************************************************************************)
CountIn(s, x) == Cardinality({i \in 1..Len(s) : s[i] = x})
IsPermutation(a, b) == Len(a) = Len(b) /\ \A x \in IDs : CountIn(a, x) = CountIn(b, x)
SameIdSet(a, b) == {a[i] : i \in 1..Len(a)} = {b[i] : i \in 1..Len(b)}

\* what the helper of the last call would do now, called with ids
Again(ids) == CreateContext(_contexts, allocated, HelperScope(lastCall.helper, ids))
AgainWithIdentifier(ids) ==
  CreateContext(_contexts, allocated, Parse(Stringify(HelperScope(lastCall.helper, ids))))

\* C1: after any call of a scope helper, the same helper called with any
\* permutation of the same ID list (as a scope or as its identifier) returns
\* the Context object the call returned, under the same canonical identifier,
\* and leaves the registry as it is
C1_PermutationsShareContext ==
  lastCall.helper # "none" =>
    \A ids \in IdLists :
      IsPermutation(ids, lastCall.ids) =>
        /\ Again(ids).ret.oid = lastCall.ret
        /\ Again(ids).contexts = _contexts
        /\ Again(ids).ret.identifier
             = Stringify(Normalize(HelperScope(lastCall.helper, lastCall.ids)))
        /\ AgainWithIdentifier(ids).ret.oid = lastCall.ret
        /\ AgainWithIdentifier(ids).contexts = _contexts

\* a call whose list is not in canonical order found the entry of an earlier call
C1_Witness ==
  /\ lastCall.helper = "groups.except"
  /\ lastCall.ids = <<2, 10>>
  /\ SortIds(lastCall.ids) = <<10, 2>>
  /\ ~lastCall.created

\* C2: after any call of a scope helper, the same helper called with any list
\* denoting the same set of IDs (reordered or with IDs repeated) returns the
\* Context object the call returned
C2_SameSetSameEntry ==
  lastCall.helper # "none" =>
    \A ids \in IdLists :
      SameIdSet(ids, lastCall.ids) => Again(ids).ret.oid = lastCall.ret

(***************************************************************************)
(* Properties of emitEvent (checked under SpecEmit).                       *)
(***************************************************************************)
\* the contexts registered when emitEvent was last called
Registered == {k \in DOMAIN _contexts : _contexts[k].oid < lastEmit.registered}

\* C17: after a call of emitEvent, the contexts whose receiver emitted the
\* event are exactly the registered contexts whose scope matches the event,
\* also when the listener of one of them fails
C17_EveryMatchDelivered ==
  lastEmit.registered > 0 =>
    \A k \in Registered :
      Match(_contexts[k].scope, lastEmit.meta) <=> InList(k, lastEmit.delivered)

(***************************************************************************)
(* Properties of the middleware pipeline (checked under Spec).             *)
(***************************************************************************)
Ds == 1..Len(dispatches)
Snapshotted(j) == [kind |-> "middleware", fn |-> _middlewares[j].fn]
IsolatedReports(D) == CountIn(D.emitted, "error:ISOLATED_NEXT")
CaughtReports(D) == SelectSeq(D.emitted, LAMBDA e : e # "error:ISOLATED_NEXT")
RECURSIVE LateCalls(_)
LateCalls(acts) == IF acts = <<>> THEN 0 ELSE Head(acts).late + LateCalls(Tail(acts))
Faults(D) == {k \in 1..Len(D.acts) : D.acts[k].st \in {"thrown", "rejected"}}
\* no handler of the dispatch has called next more than once
SingleCalls(D) == \A k \in 1..Len(D.acts) : D.acts[k].calls <= 1

\* C3: a dispatch invokes only middleware that was registered when it began,
\* and its chain holds every entry registered by then whose context matches
\* its event, whatever is registered afterwards
C3_SnapshotFixed ==
  \A d \in Ds :
    LET D == dispatches[d]
    IN /\ \A i \in 1..Len(D.middlewares) :
            D.middlewares[i].kind = "middleware" => D.middlewares[i].fn < D.registered
       /\ \A k \in 1..Len(D.acts) :
            D.acts[k].entry.kind = "middleware" => D.acts[k].entry.fn < D.registered
       /\ \A j \in 1..D.registered :
            Match(_contexts[_middlewares[j].context].scope, D.meta)
              => \E i \in 1..Len(D.middlewares) : D.middlewares[i] = Snapshotted(j)

\* a middleware registered while the first dispatch was in flight has been
\* invoked by the second and not by the first
C3_Witness ==
  \E d1, d2 \in Ds :
    /\ d1 < d2
    /\ dispatches[d1].root = "wait"
    /\ dispatches[d1].registered < dispatches[d2].registered
    /\ \E k \in 1..Len(dispatches[d2].acts) :
         /\ dispatches[d2].acts[k].entry.kind = "middleware"
         /\ dispatches[d2].acts[k].entry.fn >= dispatches[d1].registered

\* C4: the k-th handler a dispatch invokes is the k-th of its chain, the
\* snapshot entries of the chain stand in registration order, and the first
\* handler invoked is _preprocess
C4_SnapshotOrder ==
  \A d \in Ds :
    LET D == dispatches[d]
    IN /\ D.acts # <<>>
       /\ D.acts[1].entry = [kind |-> "middleware", fn |-> 0]
       /\ \A k \in 1..Len(D.acts) :
            D.acts[k].pos = k - 1 /\ D.acts[k].entry = D.middlewares[k]
       /\ \A i, j \in 1..Len(D.middlewares) :
            (i < j /\ D.middlewares[i].kind = "middleware"
                   /\ D.middlewares[j].kind = "middleware")
              => D.middlewares[i].fn < D.middlewares[j].fn

\* a dispatch has invoked _preprocess, a middleware of the groups context and
\* a middleware of the root context registered after it, in that order, while
\* an entry that does not match stands between them in _middlewares
C4_Witness ==
  \E d \in Ds :
    /\ Len(_middlewares) = 3
    /\ _middlewares[2].context = Stringify(groupsScope)
    /\ _middlewares[3].context = appIdentifier
    /\ Len(dispatches[d].acts) = 3
    /\ dispatches[d].acts[2].entry.fn = 1
    /\ dispatches[d].acts[3].entry.fn = 2

\* C5: a step in which a handler calls the next of a dispatch whose counter
\* has left the live set invokes nothing, leaves the index and the chain as
\* they are and emits 'error' with ISOLATED_NEXT; the index moves only while
\* the counter is in the live set
C5_DeadNextIsolated ==
  [][\A d \in Ds :
       LET D == dispatches[d]
           E == dispatches'[d]
       IN /\ (/\ D.counter \notin _middlewareSet
              /\ \E k \in 1..Len(D.acts) : E.acts[k].calls = D.acts[k].calls + 1)
            => /\ E.index = D.index
               /\ E.middlewares = D.middlewares
               /\ Len(E.acts) = Len(D.acts)
               /\ E.emitted = D.emitted \o <<"error:ISOLATED_NEXT">>
          /\ (E.index # D.index \/ Len(E.acts) # Len(D.acts))
            => D.counter \in _middlewareSet]_vars

\* a handler has called next(fallback) after its dispatch completed: the
\* call was reported and the chain holds no fallback of that handler
C5_Witness ==
  \E d \in Ds : \E k \in 1..Len(dispatches[d].acts) :
    LET D == dispatches[d]
    IN /\ D.root = "done"
       /\ D.acts[k].prog = <<"fire">>
       /\ D.acts[k].late = 1
       /\ IsolatedReports(D) = 1
       /\ D.index < Len(D.middlewares)
       /\ \A i \in 1..Len(D.middlewares) : D.middlewares[i] # [kind |-> "fallback", fn |-> k]

\* C6 as stated: a handler that has called next twice after its dispatch
\* completed has produced exactly one ISOLATED_NEXT report
C6_OneReportForTwoCalls ==
  \A d \in Ds : \A k \in 1..Len(dispatches[d].acts) :
    dispatches[d].acts[k].late = 2 => IsolatedReports(dispatches[d]) = 1

\* C6 amended: every call of next made after the dispatch completed produces
\* exactly one ISOLATED_NEXT report (two calls, two reports) and nothing is
\* invoked after completion
C6_OneReportPerLateCall ==
  \A d \in Ds :
    LET D == dispatches[d]
    IN /\ IsolatedReports(D) = LateCalls(D.acts)
       /\ D.root = "done" => Len(D.acts) = D.doneActs /\ D.index = D.doneIndex

\* a handler has called next twice after its dispatch completed, with
\* handlers of the chain still not invoked
C6_Witness ==
  \E d \in Ds : \E k \in 1..Len(dispatches[d].acts) :
    /\ dispatches[d].acts[k].late = 2
    /\ dispatches[d].index < Len(dispatches[d].middlewares)

\* C7: every failure of a handler, thrown or rejected, has been reported by
\* one 'error/middleware' followed by one 'error', and none has left
\* _applyMiddlewares
C7_FailuresCaught ==
  \A d \in Ds :
    LET D == dispatches[d]
        reports == CaughtReports(D)
    IN /\ D.root # "faulted"
       /\ Len(reports) = 2 * Cardinality(Faults(D))
       /\ \A i \in 1..Len(reports) :
            reports[i] = IF i % 2 = 1 THEN "error/middleware" ELSE "error"

ChainStopsAtFault ==
  \A d \in Ds :
    LET D == dispatches[d]
    IN /\ \A k \in Faults(D) : SingleCalls(D) => Len(D.acts) = k
       /\ D.root = "done" =>
            /\ D.counter \notin _middlewareSet
            /\ D.removed = 1
            /\ D.flushed = IF D.user THEN 1 ELSE 0

C9_RemovedAndFlushedOnce ==
  \A d \in Ds :
    LET D == dispatches[d]
    IN /\ D.root = "done" =>
            /\ D.removed = 1
            /\ D.counter \notin _middlewareSet
            /\ D.flushed = IF D.user THEN 1 ELSE 0
       /\ D.root # "done" =>
            /\ D.removed = 0
            /\ D.flushed = 0
            /\ D.counter \in _middlewareSet

\* a dispatch has completed because a handler returned without calling next,
\* with a user record attached and flushed
C9_Witness ==
  \E d \in Ds :
    LET D == dispatches[d]
    IN /\ D.root = "done"
       /\ D.user /\ D.flushed = 1 /\ D.removed = 1
       /\ Len(D.acts) = 2
       /\ Len(D.middlewares) = 3
       /\ D.acts[2].st = "done" /\ D.acts[2].calls = 0

\* C10 as stated: a fallback that has been invoked was invoked after every
\* handler between its caller and itself had been invoked and had called next
C10_AllBehindCalledNext ==
  \A d \in Ds :
    LET D == dispatches[d]
    IN \A p \in 1..Len(D.acts) :
         D.acts[p].entry.kind = "fallback" =>
           \A q \in (D.acts[p].entry.fn + 1)..(p - 1) : D.acts[q].calls >= 1

\* C10 amended: a fallback stands at the end of the chain, behind every
\* snapshot handler; it is invoked at most once per next(fallback) call and
\* only after every handler before it in the chain has been invoked; each
\* of those has also called next when no handler of the dispatch calls next
\* more than once
C10_FallbackLast ==
  \A d \in Ds :
    LET D == dispatches[d]
    IN /\ \A i, j \in 1..Len(D.middlewares) :
            (i < j /\ D.middlewares[i].kind = "fallback")
              => D.middlewares[j].kind = "fallback"
       /\ \A p \in 1..Len(D.acts) :
            D.acts[p].entry.kind = "fallback" =>
              /\ D.acts[p].entry = D.middlewares[p]
              /\ \A q \in 1..(p - 1) :
                   /\ D.acts[q].pos = q - 1
                   /\ SingleCalls(D) => D.acts[q].calls = 1
       /\ \A p, q \in 1..Len(D.acts) : p # q => D.acts[p].pos # D.acts[q].pos
       /\ \A c \in 1..Len(D.acts) :
            CountIn(D.middlewares, [kind |-> "fallback", fn |-> c]) <= D.acts[c].calls

\* a fallback handed to next by _preprocess has been invoked after the
\* snapshot handler behind _preprocess was invoked and called next
C10_Witness ==
  \E d \in Ds :
    LET D == dispatches[d]
    IN /\ Len(D.acts) = 3
       /\ D.acts[3].entry = [kind |-> "fallback", fn |-> 1]
       /\ D.acts[2].entry.kind = "middleware"
       /\ D.acts[2].calls = 1

\* the handlers of a dispatch that can take a step
Runnable(D) == {k \in 1..Len(D.acts) : D.acts[k].st = "ready" /\ D.acts[k].prog # <<"hang">>}
\* every handler of the dispatch awaits the one call of next it makes
Disciplined(D) == \A k \in 1..Len(D.acts) : D.acts[k].calls <= 1 /\ ~D.acts[k].loose

\* C18 as stated: in every dispatch the k-th handler invoked was invoked by a
\* call of next of the handler before it (the first by _applyMiddlewares),
\* and at most one handler is running
C18_OneRunning ==
  \A d \in Ds :
    LET D == dispatches[d]
    IN /\ \A k \in 1..Len(D.acts) : D.acts[k].by = k - 1
       /\ Cardinality(Runnable(D)) <= 1

\* C18 amended: the same, for a dispatch in which every handler calls next
\* at most once and awaits (or returns) the result of the call
C18_OneRunningWhenAwaited ==
  \A d \in Ds :
    LET D == dispatches[d]
    IN Disciplined(D) =>
         /\ \A k \in 1..Len(D.acts) : D.acts[k].by = k - 1
         /\ Cardinality(Runnable(D)) <= 1

\* a dispatch whose three handlers each awaited their call of next has run to
\* completion, the third being a fallback
C18_Witness ==
  \E d \in Ds :
    LET D == dispatches[d]
    IN /\ Disciplined(D)
       /\ D.root = "done"
       /\ Len(D.acts) = 3
       /\ D.acts[3].entry.kind = "fallback"
       /\ \A k \in 1..2 : D.acts[k].calls = 1

\* a dispatch whose handler awaits what never settles
Hung(D) == \E k \in 1..Len(D.acts) : D.acts[k].st = "ready" /\ D.acts[k].prog = <<"hang">>
\* every handler the dispatch has invoked has terminated, by returning or by failing
AllTerminated(D) ==
  /\ D.acts # <<>>
  /\ \A k \in 1..Len(D.acts) :
       /\ D.acts[k].st \in {"done", "thrown", "rejected", "aborted"}
       /\ D.acts[k].prog = <<>>

\* C19: while a dispatch is suspended for ever its counter stays in the live
\* set, and any other dispatch whose handlers have all terminated has had
\* its await next() resolve, so that it completes and leaves the live set
C19_OthersComplete ==
  \A a, b \in Ds :
    (a # b /\ Hung(dispatches[a])) =>
      /\ dispatches[a].counter \in _middlewareSet
      /\ AllTerminated(dispatches[b]) =>
           /\ dispatches[b].root \in {"ready", "done"}
           /\ dispatches[b].root = "done" => dispatches[b].counter \notin _middlewareSet

(***************************************************************************)
(* Properties of the first-stage handler (checked under SpecFirst).        *)
(***************************************************************************)
\* _preprocess has taken its decision on the dispatch's event
Decided(D) == D.pre.outcome # "pending"

\* the gates of the group, as app.ts:302-303 apply them
GroupGated(event, strip) ==
  /\ event.messageType = "group"
  /\ \/ event.noCommand /\ strip.parsedArgv.found
     \/ (event.noResponse \/ ~event.isAssignee) /\ ~strip.atMe

\* the gates of the user: the ignore flag, or an ignoreEnd not yet elapsed
UserGated(event) ==
  \/ event.ignore
  \/ event.ignoreEnd # 0 /\ event.ignoreEnd >= Now

\* C11: with a store, an event that a gate suppresses is not executed, gets
\* no suggestions and reaches no later middleware (next is not called), and
\* its dispatch completes: await next() resolves, the counter is removed
\* and the user record is flushed
C11_GatedCompletes ==
  \A d \in Ds :
    LET D == dispatches[d]
    IN (database /\ Decided(D)
          /\ (GroupGated(D.pre.event, D.pre.strip) \/ UserGated(D.pre.event))) =>
         /\ D.pre.outcome = "gated"
         /\ Len(D.acts) = 1 /\ D.index = 1
         /\ D.acts[1].calls = 0 /\ D.pre.idle = 0
         /\ D.root \in {"ready", "done"}
         /\ D.root = "done" =>
              /\ D.counter \notin _middlewareSet
              /\ D.removed = 1
              /\ D.user /\ D.flushed = 1

\* a group event with noResponse set and no at-mention, which resolves to a
\* command, has completed without the command or the middleware behind
\* _preprocess being reached
C11_Witness ==
  \E d \in Ds :
    LET D == dispatches[d]
    IN /\ database
       /\ D.pre.event.messageType = "group"
       /\ D.pre.event.noResponse /\ ~D.pre.strip.atMe
       /\ ~D.pre.event.noCommand /\ ~D.pre.event.ignore
       /\ D.pre.strip.parsedArgv.found
       /\ D.pre.outcome = "gated"
       /\ Len(D.middlewares) = 2 /\ Len(D.acts) = 1
       /\ D.root = "done" /\ D.flushed = 1

\* C20: with a store and no gate of the group in effect, an event of a user
\* whose ignore flag is set is suppressed; otherwise one whose ignoreEnd is
\* not zero and not earlier than the current time is suppressed and
\* ignoreEnd stays; otherwise ignoreEnd is 0 when _preprocess goes on, and
\* the event is processed
C20_IgnoreRules ==
  \A d \in Ds :
    LET D == dispatches[d]
        event == D.pre.event
    IN (database /\ Decided(D) /\ ~GroupGated(event, D.pre.strip)) =>
         IF event.ignore
         THEN D.pre.outcome = "gated"
         ELSE IF event.ignoreEnd # 0 /\ event.ignoreEnd >= Now
         THEN D.pre.outcome = "gated" /\ D.pre.ignoreEnd = event.ignoreEnd
         ELSE /\ D.pre.ignoreEnd = 0
              /\ D.pre.outcome \in {"execute", "suggest", "next"}

\* the event of a user whose ignoreEnd has elapsed has been executed as a
\* command, with ignoreEnd reset
C20_Witness ==
  \E d \in Ds :
    LET D == dispatches[d]
    IN /\ database
       /\ ~D.pre.event.ignore
       /\ D.pre.event.ignoreEnd = 4 /\ D.pre.event.ignoreEnd < Now
       /\ D.pre.ignoreEnd = 0
       /\ D.pre.outcome = "execute"

\* C13: the message is resolved by strict parse exactly when a prefix
\* matched (the empty one included), the message was nicknamed or
\* at-mentioned, or the conversation is private, and the lower-cased first
\* token of the stripped text names a registered command whose context
\* matches the event; the command line is then that command with the rest of
\* the text; with the prefix "!" the private message "!e x" resolves to e
\* with the remainder "x"
C13_StrictParse ==
  \A d \in Ds :
    LET D == dispatches[d]
        strip == D.pre.strip
        token == ToLowerCase(FirstToken(strip.message))
    IN /\ strip.parsedArgv.via = "strict" <=>
            /\ \/ strip.prefix.matched
               \/ strip.nickname
               \/ D.pre.event.messageType = "private"
            /\ token \in DOMAIN CommandMap
            /\ Match(_contexts[CommandMap[token].context].scope, D.meta)
       /\ strip.parsedArgv.via = "strict" =>
            /\ strip.parsedArgv.command = token
            /\ strip.parsedArgv.args = TrimStart(Drop(strip.message, Len(token)))
       /\ (/\ options.prefixes = << <<"!">> >>
           /\ D.pre.event.messageType = "private"
           /\ D.pre.event.message = <<"!", "e", " ", "x">>) =>
            /\ strip.parsedArgv.via = "strict"
            /\ strip.parsedArgv.command = <<"e">>
            /\ strip.parsedArgv.args = <<"x">>

\* a private message without prefix or nickname, written with a capital
\* letter, has been resolved by strict parse while "!" is the only prefix
C13_Witness ==
  \E d \in Ds :
    LET D == dispatches[d]
    IN /\ options.prefixes = << <<"!">> >>
       /\ D.pre.event.messageType = "private"
       /\ D.pre.event.message = <<"E">>
       /\ ~D.pre.strip.prefix.matched /\ ~D.pre.strip.nickname
       /\ D.pre.strip.parsedArgv.via = "strict"
       /\ D.pre.strip.parsedArgv.command = <<"e">>

\* a group event with a store whose noResponse condition holds, which
\* at-mentions the endpoint and which no other gate suppresses
AtMeOverrides(D) ==
  /\ database /\ Decided(D)
  /\ D.pre.event.messageType = "group"
  /\ (D.pre.event.noResponse \/ ~D.pre.event.isAssignee)
  /\ D.pre.strip.atMe
  /\ ~GroupGated(D.pre.event, D.pre.strip) /\ ~UserGated(D.pre.event)

\* the number of calls of the continuation that _preprocess, the command or
\* the suggestion flow have made
ContinuationCalls(D) == D.acts[1].calls + D.pre.idle

\* C12: for a group event whose noResponse condition holds but which
\* at-mentions the endpoint, a resolved command is executed and, once the
\* continuation is called, the middleware behind _preprocess is run
C12_AtMeProceedsUngated ==
  \A d \in Ds :
    LET D == dispatches[d]
    IN AtMeOverrides(D) =>
         /\ D.pre.strip.parsedArgv.found => D.pre.outcome = "execute"
         /\ ~D.pre.strip.parsedArgv.found => D.pre.outcome \in {"next", "suggest"}
         /\ ContinuationCalls(D) >= 1 => Len(D.acts) >= 2

\* C12 (amended): for such an event a resolved command is executed and an
\* unresolved one falls through or gets suggestions, but the continuation in
\* use returns without calling the dispatch's next: no middleware behind
\* _preprocess is run. Where the noResponse condition does not hold the
\* continuation is the dispatch's next, and a call of it runs the next
\* middleware
C12_AtMeExecutesOnly ==
  \A d \in Ds :
    LET D == dispatches[d]
        withheld == /\ database
                    /\ D.pre.event.messageType = "group"
                    /\ (D.pre.event.noResponse \/ ~D.pre.event.isAssignee)
    IN /\ AtMeOverrides(D) =>
            /\ D.pre.strip.parsedArgv.found => D.pre.outcome = "execute"
            /\ ~D.pre.strip.parsedArgv.found => D.pre.outcome \in {"next", "suggest"}
            /\ D.acts[1].calls = 0 /\ Len(D.acts) = 1
       /\ (Decided(D) /\ ~withheld) =>
            /\ D.pre.idle = 0
            /\ D.acts[1].calls >= 1 => Len(D.acts) >= 2

\* the command of an at-mentioning message in a noResponse group has been
\* executed and has called its continuation, and the dispatch has completed
\* without the middleware behind _preprocess
C12_Witness ==
  \E d \in Ds :
    LET D == dispatches[d]
    IN /\ AtMeOverrides(D)
       /\ D.pre.event.noResponse
       /\ D.pre.outcome = "execute"
       /\ D.pre.idle >= 1
       /\ Len(D.middlewares) = 2 /\ Len(D.acts) = 1
       /\ D.root = "done"

\* the rules a shortcut passes for a stripped text, in the words of C15
PassesRules(shortcut, nickname, message) ==
  LET after == Drop(message, Len(shortcut.name))
  IN /\ shortcut.prefix => nickname
     /\ ~shortcut.fuzzy => message = shortcut.name
     /\ shortcut.fuzzy =>
          /\ StartsWith(message, shortcut.name)
          /\ ~shortcut.prefix => (after = <<>> \/ Head(after) = " ")

\* the shortcuts that pass, by their place in the registration order
Passing(strip) ==
  { i \in 1..Len(Shortcuts) : PassesRules(Shortcuts[i], strip.nickname, strip.message) }

\* the parsed command line is the one of the first passing shortcut: its
\* command, with its options in the place of the parsed ones
FromFirstPassing(strip) ==
  /\ Passing(strip) # {}
  /\ LET i == CHOOSE j \in Passing(strip) : \A l \in Passing(strip) : j <= l
     IN /\ strip.parsedArgv.command = Shortcuts[i].command
        /\ Shortcuts[i].options # <<>> =>
             strip.parsedArgv.options = Shortcuts[i].options

\* C15: a message is resolved by a shortcut only when no prefix was present
\* at all (no prefix pattern matched, the empty one included), and then by
\* the first shortcut in registration order that passes all rules
C15_ShortcutOnlyWithoutPrefix ==
  \A d \in Ds :
    LET strip == dispatches[d].pre.strip
    IN strip.parsedArgv.via = "shortcut" =>
         /\ ~strip.prefix.matched
         /\ FromFirstPassing(strip)

\* C15 (amended): a message is resolved by a shortcut exactly when strict
\* parse did not resolve it, no non-empty prefix was matched and some
\* shortcut passes all rules; the command line is then the one of the first
\* passing shortcut in registration order
C15_ShortcutUnlessPrefixText ==
  \A d \in Ds :
    LET D == dispatches[d]
        strip == D.pre.strip
        strict == /\ \/ strip.prefix.matched
                     \/ strip.nickname
                     \/ D.pre.event.messageType = "private"
                  /\ ParseCommandLine(_contexts, strip.message, D.meta).found
    IN /\ strip.parsedArgv.via = "shortcut" <=>
            /\ ~strict
            /\ ~(strip.prefix.matched /\ strip.prefix.text # <<>>)
            /\ Passing(strip) # {}
       /\ strip.parsedArgv.via = "shortcut" => FromFirstPassing(strip)

\* with the default options, whose empty prefix matches every message, the
\* text "s x" has been resolved by the fuzzy shortcut s, registered before
\* the exact shortcut "s x", with the shortcut's option
C15_Witness ==
  \E d \in Ds :
    LET strip == dispatches[d].pre.strip
    IN /\ options = DefaultOptions
       /\ strip.prefix.matched /\ strip.prefix.text = <<>>
       /\ strip.message = <<"s", " ", "x">>
       /\ Passing(strip) = {2, 3}
       /\ strip.parsedArgv.via = "shortcut"
       /\ strip.parsedArgv.command = <<"e">>
       /\ strip.parsedArgv.options = <<"default">>

\* C14: a command that _preprocess executes is one whose registered context
\* matches the event, whichever way the command was resolved
C14_ExecutedWhereCallable ==
  \A d \in Ds :
    LET D == dispatches[d]
    IN D.pre.outcome = "execute" =>
         Match(_contexts[CommandMap[D.pre.strip.parsedArgv.command].context].scope,
               D.meta)

\* C16: an event that is not gated and resolves to no command enters the
\* suggestion flow when a prefix matched or the message was nicknamed or
\* at-mentioned, and the first token of the stripped text is not empty; in
\* every other such case _preprocess falls through to next
C16_SuggestWhenDemanded ==
  \A d \in Ds :
    LET D == dispatches[d]
        strip == D.pre.strip
        demanded == /\ strip.prefix.matched \/ strip.nickname
                    /\ ToLowerCase(FirstToken(strip.message)) # <<>>
    IN (Decided(D) /\ ~strip.parsedArgv.found /\ D.pre.outcome # "gated") =>
         D.pre.outcome = IF demanded THEN "suggest" ELSE "next"

Ended(D) == D.root \in {"done", "faulted"}

\* C22: the live set holds the counters of the dispatches that have started
\* and not ended, and nothing else; the counters of two dispatches differ; a
\* dispatch that has ended, by completing or by the failure of a handler,
\* has its counter out of the live set
C22_LiveSetExact ==
  /\ \A a, b \in Ds : a # b => dispatches[a].counter # dispatches[b].counter
  /\ _middlewareSet = { dispatches[d].counter : d \in { e \in Ds : ~Ended(dispatches[e]) } }

(***************************************************************************)
(* Properties of Database.create (checked under SpecCreate).               *)
(***************************************************************************)
\* the calls of create that took their id from the collection and have
\* returned
Incremented == { c \in 1..Len(creates) : creates[c].given = 0 /\ creates[c].pc = "done" }

\* C23: on a table of type incremental, no two calls of create return
\* records with the same primary id, however the calls interleave, and the
\* record a call returns has been inserted into the collection
C23_DistinctInserted ==
  /\ \A a, b \in Incremented : a # b => creates[a].id # creates[b].id
  /\ \A c \in Incremented :
       /\ creates[c].inserted
       /\ [_id |-> creates[c].id, by |-> c] \in collection

=============================================================================
